---- MODULE Spec2Model ----
(***************************************************************************)
(* Model of src/args.rs: the command classifier parse_args and the         *)
(* build-argument parser parse_build_args of the bootimage front end.      *)
(*                                                                         *)
(* A token (a Rust String) is a sequence of one-character strings, so that *)
(* starts_with and trim_left_matches are computed character by character.  *)
(* An Option<T> is a sequence of length 0 (None) or 1 (Some(v)).           *)
(***************************************************************************)
EXTENDS Naturals, Sequences, FiniteSets

VARIABLES
    argv,             \* env::args().skip(1): the argument vector
    pos,              \* number of tokens the iterator has yielded so far
    pc,               \* "parse_args" | "loop" | "returned" | "done" | "panic"
    first,            \* Option<String>: the first token taken by parse_args
    manifest_path,    \* Option<PathBuf>
    bin_name,         \* Option<String>
    target,           \* Option<String>
    release,          \* Option<bool>
    cargo_args,       \* Vec<String>
    run_args,         \* Vec<String>
    run_args_started, \* bool
    cmd,              \* the Command returned by parse_build_args
    result,           \* the Command returned by parse_args
    err               \* the panic that ended the parse, "" when none

vars == <<argv, pos, pc, first, manifest_path, bin_name, target, release,
          cargo_args, run_args, run_args_started, cmd, result, err>>

---------------------------------------------------------------------------
(* Bounds *)

\* Longest token stream after the first token, under Spec.
MaxTail == 3

\* Longest token stream after the first token, under SpecEq.
MaxEqTail == 2

\* Longest token stream after the first token, under SpecSet.
MaxSetTail == 2

---------------------------------------------------------------------------
(* Tokens *)

T_build == <<"b","u","i","l","d">>
T_run == <<"r","u","n">>
T_test == <<"t","e","s","t">>
T_help == <<"-","-","h","e","l","p">>
T_h == <<"-","h">>
T_version == <<"-","-","v","e","r","s","i","o","n">>
T_bin == <<"-","-","b","i","n">>
T_bin_eq == <<"-","-","b","i","n","=">>
T_target == <<"-","-","t","a","r","g","e","t">>
T_target_eq == <<"-","-","t","a","r","g","e","t","=">>
T_manifest_path == <<"-","-","m","a","n","i","f","e","s","t","-","p","a","t","h">>
T_manifest_path_eq == <<"-","-","m","a","n","i","f","e","s","t","-","p","a","t","h","=">>
T_release == <<"-","-","r","e","l","e","a","s","e">>
T_sep == <<"-","-">>

\* Two plain words: "p" names a file that exists, "x" names none.
T_x == <<"x">>
T_p == <<"p">>

\* The files of the working directory, and the working directory itself.
ExistingFiles == {T_p}
Cwd == <<"/">>

\* The first tokens the argument vectors are drawn from.
FirstTokens == {T_build, T_run, T_test, T_help, T_h, T_version, T_x}

\* The later tokens the argument vectors of Spec are drawn from.
TailTokens ==
    {T_help, T_h, T_version, T_bin, T_target, T_manifest_path, T_release,
     T_sep, T_x, T_p,
     T_bin_eq \o T_x, T_target_eq \o T_x, T_manifest_path_eq \o T_p}

\* The later tokens the argument vectors of SpecEq are drawn from: more
\* values after the `=` of the --opt=value forms.
EqTokens ==
    TailTokens \cup
    {T_manifest_path_eq \o T_x,
     T_bin_eq \o T_bin_eq \o T_x,
     T_manifest_path_eq \o T_manifest_path_eq \o T_p}

\* The argument vectors: nothing, or a first token and up to n later tokens.
Argvs(tokens, n) ==
    {<<>>} \cup
    {<<f>> \o t : f \in FirstTokens, t \in UNION {[1..k -> tokens] : k \in 0..n}}

---------------------------------------------------------------------------
(* Library functions *)

None == <<>>
Some(v) == <<v>>

\* str::starts_with
starts_with(s, p) == Len(s) >= Len(p) /\ SubSeq(s, 1, Len(p)) = p

\* str::trim_left_matches: every leading repetition of p is removed.
RECURSIVE trim_left_matches(_, _)
trim_left_matches(s, p) ==
    IF Len(p) > 0 /\ starts_with(s, p)
    THEN trim_left_matches(SubSeq(s, Len(p) + 1, Len(s)), p)
    ELSE s

\* Path::canonicalize: Some(absolute path) of an existing file, None (Err)
\* otherwise.
canonicalize(p) == IF p \in ExistingFiles THEN Some(Cwd \o p) ELSE None

---------------------------------------------------------------------------
(* Commands *)

\* Args { cargo_args, run_args, bin_name, target, manifest_path, release }
Args(ca, ra, bn, tg, mp, rel) ==
    [cargo_args |-> ca, run_args |-> ra, bin_name |-> bn, target |-> tg,
     manifest_path |-> mp, release |-> rel]

\* The variants of Command that carry an Args, and those that carry nothing.
WithArgs(tag, a) == [tag |-> tag, args |-> a]
Plain(tag) == [tag |-> tag]

\* No Command (yet).
NoCommand == Plain("none")

\* The panics of the parse, named as the specification names them:
\*   DuplicateOption     "multiple arguments of same type provided"
\*   InvalidPath         "--manifest-path invalid"
\*   IllegalCombination  "No `--bin` argument allowed for `bootimage test`"
Panic(s, e) == [s EXCEPT !.pc = "panic", !.err = e]

---------------------------------------------------------------------------
(* The state as one record, so that a step is a function of the state *)

Cur ==
    [argv |-> argv, pos |-> pos, pc |-> pc, first |-> first,
     manifest_path |-> manifest_path, bin_name |-> bin_name,
     target |-> target, release |-> release, cargo_args |-> cargo_args,
     run_args |-> run_args, run_args_started |-> run_args_started,
     cmd |-> cmd, result |-> result, err |-> err]

Become(s) ==
    /\ argv' = s.argv
    /\ pos' = s.pos
    /\ pc' = s.pc
    /\ first' = s.first
    /\ manifest_path' = s.manifest_path
    /\ bin_name' = s.bin_name
    /\ target' = s.target
    /\ release' = s.release
    /\ cargo_args' = s.cargo_args
    /\ run_args' = s.run_args
    /\ run_args_started' = s.run_args_started
    /\ cmd' = s.cmd
    /\ result' = s.result
    /\ err' = s.err

\* The state in which parse_args is entered with argument vector a.
Start(a) ==
    [argv |-> a, pos |-> 0, pc |-> "parse_args", first |-> None,
     manifest_path |-> None, bin_name |-> None, target |-> None,
     release |-> None, cargo_args |-> <<>>, run_args |-> <<>>,
     run_args_started |-> FALSE, cmd |-> NoCommand, result |-> NoCommand,
     err |-> ""]

\* Iterator::next on the argument iterator: the token it yields, if any.
Peek(s) == IF s.pos < Len(s.argv) THEN Some(s.argv[s.pos + 1]) ELSE None

\* The iterator after it has yielded n tokens.
Advance(s, n) == [s EXCEPT !.pos = s.pos + n]

---------------------------------------------------------------------------
(* parse_args: the match on the first token *)
\* Classify without the short spelling of the help flag.
Classify_NoShortHelp(f) ==
    IF f = Some(T_build) THEN "build"
    ELSE IF f = Some(T_run) THEN "run"
    ELSE IF f = Some(T_test) THEN "test"
    ELSE IF f = Some(T_help) THEN "Help"
    ELSE IF f = Some(T_version) THEN "Version"
    ELSE "NoSubcommand"

\* The arm of parse_args's match that the first token selects.
Classify(f) ==
    IF f = Some(T_build) THEN "build"
    ELSE IF f = Some(T_run) THEN "run"
    ELSE IF f = Some(T_test) THEN "test"
    ELSE IF f = Some(T_help) \/ f = Some(T_h) THEN "Help"
    ELSE IF f = Some(T_version) THEN "Version"
    ELSE "NoSubcommand"

\* let first = args.next();
TakeFirst(s) == [Advance(s, Len(Peek(s))) EXCEPT !.first = Peek(s)]

\* Some("build") | Some("run") | Some("test"): parse_build_args is entered.
SubcommandArm(s) == [TakeFirst(s) EXCEPT !.pc = "loop"]

\* Some("--help") | Some("-h") => Command::Help
TopHelpArm(s) == [TakeFirst(s) EXCEPT !.pc = "done", !.result = Plain("Help")]

\* Some("--version") => Command::Version
TopVersionArm(s) ==
    [TakeFirst(s) EXCEPT !.pc = "done", !.result = Plain("Version")]

\* _ => Command::NoSubcommand
NoSubcommandArm(s) ==
    [TakeFirst(s) EXCEPT !.pc = "done", !.result = Plain("NoSubcommand")]

---------------------------------------------------------------------------
(* parse_build_args: the scan of the remaining tokens *)
\* set without its assertion.
set_NoAssert(slot, value) == [slot |-> value, ok |-> TRUE]

\* fn set<T>(arg: &mut Option<T>, value: Option<T>): the slot holds the value
\* afterwards, and the assertion holds iff the slot was empty before.
set(slot, value) == [slot |-> value, ok |-> slot = None]

\* The arm of the loop's match that a token selects (arms in source order).
MatchArm(arg) ==
    IF arg = T_help \/ arg = T_h THEN "help"
    ELSE IF arg = T_version THEN "version"
    ELSE IF arg = T_bin THEN "bin"
    ELSE IF starts_with(arg, T_bin_eq) THEN "bin_eq"
    ELSE IF arg = T_target THEN "target"
    ELSE IF starts_with(arg, T_target_eq) THEN "target_eq"
    ELSE IF arg = T_manifest_path THEN "manifest_path"
    ELSE IF starts_with(arg, T_manifest_path_eq) THEN "manifest_path_eq"
    ELSE IF arg = T_release THEN "release"
    ELSE IF arg = T_sep THEN "sep"
    ELSE "other"

\* The token `while let Some(arg) = arg_iter.next()` binds.
Arg(s) == s.argv[s.pos + 1]

\* `let next = arg_iter.next();` inside an arm, after arg was taken.
Next1(s) == Peek(Advance(s, 1))
\* RunArgArm in which a second `--` ends the run arguments again.
RunArgArm_SepToggles(s) ==
    IF Arg(s) = T_sep THEN [Advance(s, 1) EXCEPT !.run_args_started = FALSE]
    ELSE [Advance(s, 1) EXCEPT !.run_args = Append(s.run_args, Arg(s))]

\* if run_args_started { run_args.push(arg); continue; }
RunArgArm(s) == [Advance(s, 1) EXCEPT !.run_args = Append(s.run_args, Arg(s))]
\* HelpArm that forwards the flag and goes on scanning.
HelpArm_Continue(s) ==
    [Advance(s, 1) EXCEPT !.cargo_args = Append(s.cargo_args, Arg(s))]

\* "--help" | "-h" => return Command::BuildHelp
HelpArm(s) ==
    [Advance(s, 1) EXCEPT !.pc = "returned", !.cmd = Plain("BuildHelp")]

\* "--version" => return Command::Version
VersionArm(s) ==
    [Advance(s, 1) EXCEPT !.pc = "returned", !.cmd = Plain("Version")]
\* BinArm that treats a missing value as a second setting of the slot.
BinArm_RequireValue(s) ==
    LET next == Next1(s)
        r == set(s.bin_name, next)
        t == [Advance(s, 1 + Len(next)) EXCEPT !.bin_name = r.slot]
    IN  IF ~r.ok \/ next = None THEN Panic(t, "DuplicateOption")
        ELSE [t EXCEPT !.cargo_args = s.cargo_args \o <<Arg(s)>> \o next]

\* "--bin" => { next; set(&mut bin_name, next.clone()); push arg; push next }
BinArm(s) ==
    LET next == Next1(s)
        r == set(s.bin_name, next)
        t == [Advance(s, 1 + Len(next)) EXCEPT !.bin_name = r.slot]
    IN  IF ~r.ok THEN Panic(t, "DuplicateOption")
        ELSE [t EXCEPT !.cargo_args = s.cargo_args \o <<Arg(s)>> \o next]

\* _ if arg.starts_with("--bin=") => { set(.., trim_left_matches); push arg }
BinEqArm(s) ==
    LET r == set(s.bin_name, Some(trim_left_matches(Arg(s), T_bin_eq)))
        t == [Advance(s, 1) EXCEPT !.bin_name = r.slot]
    IN  IF ~r.ok THEN Panic(t, "DuplicateOption")
        ELSE [t EXCEPT !.cargo_args = Append(s.cargo_args, Arg(s))]

\* "--target" => { next; set(&mut target, next.clone()); push arg; push next }
TargetArm(s) ==
    LET next == Next1(s)
        r == set(s.target, next)
        t == [Advance(s, 1 + Len(next)) EXCEPT !.target = r.slot]
    IN  IF ~r.ok THEN Panic(t, "DuplicateOption")
        ELSE [t EXCEPT !.cargo_args = s.cargo_args \o <<Arg(s)>> \o next]

\* _ if arg.starts_with("--target=") => { set(.., trim_left_matches); push }
TargetEqArm(s) ==
    LET r == set(s.target, Some(trim_left_matches(Arg(s), T_target_eq)))
        t == [Advance(s, 1) EXCEPT !.target = r.slot]
    IN  IF ~r.ok THEN Panic(t, "DuplicateOption")
        ELSE [t EXCEPT !.cargo_args = Append(s.cargo_args, Arg(s))]

\* "--manifest-path" => the value is canonicalized (expect) before set is
\* called; then push arg, push next.
ManifestPathArm(s) ==
    LET next == Next1(s)
        path == IF next = None THEN None ELSE canonicalize(next[1])
        r == set(s.manifest_path, path)
        t == Advance(s, 1 + Len(next))
    IN  IF next # None /\ path = None THEN Panic(t, "InvalidPath")
        ELSE IF ~r.ok
        THEN Panic([t EXCEPT !.manifest_path = r.slot], "DuplicateOption")
        ELSE [t EXCEPT !.manifest_path = r.slot,
                       !.cargo_args = s.cargo_args \o <<Arg(s)>> \o next]

\* _ if arg.starts_with("--manifest-path=") => canonicalize (expect), set,
\* push arg.
ManifestPathEqArm(s) ==
    LET path == canonicalize(trim_left_matches(Arg(s), T_manifest_path_eq))
        r == set(s.manifest_path, path)
        t == Advance(s, 1)
    IN  IF path = None THEN Panic(t, "InvalidPath")
        ELSE IF ~r.ok
        THEN Panic([t EXCEPT !.manifest_path = r.slot], "DuplicateOption")
        ELSE [t EXCEPT !.manifest_path = r.slot,
                       !.cargo_args = Append(s.cargo_args, Arg(s))]
\* ReleaseArm that stores the flag without the set-once check.
ReleaseArm_Idempotent(s) ==
    [Advance(s, 1) EXCEPT !.release = Some(TRUE),
                          !.cargo_args = Append(s.cargo_args, Arg(s))]

\* "--release" => { set(&mut release, Some(true)); cargo_args.push(arg); }
ReleaseArm(s) ==
    LET r == set(s.release, Some(TRUE))
        t == [Advance(s, 1) EXCEPT !.release = r.slot]
    IN  IF ~r.ok THEN Panic(t, "DuplicateOption")
        ELSE [t EXCEPT !.cargo_args = Append(s.cargo_args, Arg(s))]
\* SepArm that also forwards the separator to cargo.
SepArm_Forward(s) ==
    [Advance(s, 1) EXCEPT !.run_args_started = TRUE,
                          !.cargo_args = Append(s.cargo_args, Arg(s))]

\* "--" => { run_args_started = true; }
SepArm(s) == [Advance(s, 1) EXCEPT !.run_args_started = TRUE]
\* OtherArm that drops the token instead of forwarding it.
OtherArm_Drop(s) == Advance(s, 1)

\* _ => { cargo_args.push(arg); }
OtherArm(s) ==
    [Advance(s, 1) EXCEPT !.cargo_args = Append(s.cargo_args, Arg(s))]
\* release.unwrap_or(true)
unwrap_or_true(o) == IF o = None THEN TRUE ELSE o[1]

\* release.unwrap_or(false)
unwrap_or_false(o) == IF o = None THEN FALSE ELSE o[1]

\* The iterator is exhausted: Command::Build(Args { .. }) is returned.
EndArm(s) ==
    [s EXCEPT !.pc = "returned",
              !.cmd = WithArgs("Build",
                          Args(s.cargo_args, s.run_args, s.bin_name, s.target,
                               s.manifest_path, unwrap_or_false(s.release)))]

---------------------------------------------------------------------------
(* parse_args: what it makes of parse_build_args's result *)

\* Some("build") => parse_build_args(args)
BuildReturn(s) == [s EXCEPT !.pc = "done", !.result = s.cmd]
\* RunReturn that forgets to relabel BuildHelp.
RunReturn_NoHelpRelabel(s) ==
    [s EXCEPT !.pc = "done",
              !.result = IF s.cmd.tag = "Build"
                         THEN WithArgs("Run", s.cmd.args)
                         ELSE s.cmd]

\* Some("run") => Build(args) => Run(args), BuildHelp => RunHelp, cmd => cmd
RunReturn(s) ==
    [s EXCEPT !.pc = "done",
              !.result = IF s.cmd.tag = "Build"
                         THEN WithArgs("Run", s.cmd.args)
                         ELSE IF s.cmd.tag = "BuildHelp" THEN Plain("RunHelp")
                         ELSE s.cmd]
\* TestReturn without the bin_name assertion.
TestReturn_NoAssert(s) ==
    [s EXCEPT !.pc = "done",
              !.result = IF s.cmd.tag = "Build"
                         THEN WithArgs("Test", s.cmd.args)
                         ELSE IF s.cmd.tag = "BuildHelp" THEN Plain("TestHelp")
                         ELSE s.cmd]
\* TestReturn whose assertion is on the target instead of the bin_name.
TestReturn_AssertTarget(s) ==
    IF s.cmd.tag = "Build"
    THEN IF s.cmd.args.target # None THEN Panic(s, "IllegalCombination")
         ELSE [s EXCEPT !.pc = "done", !.result = WithArgs("Test", s.cmd.args)]
    ELSE [s EXCEPT !.pc = "done",
                   !.result = IF s.cmd.tag = "BuildHelp"
                              THEN Plain("TestHelp") ELSE s.cmd]

\* Some("test") => Build(args) => { assert_eq!(args.bin_name, None);
\* Test(args) }, BuildHelp => TestHelp, cmd => cmd
TestReturn(s) ==
    IF s.cmd.tag = "Build"
    THEN IF s.cmd.args.bin_name # None THEN Panic(s, "IllegalCombination")
         ELSE [s EXCEPT !.pc = "done", !.result = WithArgs("Test", s.cmd.args)]
    ELSE [s EXCEPT !.pc = "done",
                   !.result = IF s.cmd.tag = "BuildHelp"
                              THEN Plain("TestHelp") ELSE s.cmd]

---------------------------------------------------------------------------
(* Control: which piece of code runs next *)

Branch(s) ==
    IF s.pc = "parse_args" THEN
        IF Classify(Peek(s)) \in {"build", "run", "test"} THEN "subcommand"
        ELSE Classify(Peek(s))
    ELSE IF s.pc = "loop" THEN
        IF Peek(s) = None THEN "end"
        ELSE IF s.run_args_started THEN "run_arg"
        ELSE MatchArm(Arg(s))
    ELSE IF s.pc = "returned" THEN "ret_" \o Classify(s.first)
    ELSE "stopped"

\* One step of the program as a function of the state.
Step(s) ==
    LET b == Branch(s) IN
    CASE b = "subcommand" -> SubcommandArm(s)
      [] b = "Help" -> TopHelpArm(s)
      [] b = "Version" -> TopVersionArm(s)
      [] b = "NoSubcommand" -> NoSubcommandArm(s)
      [] b = "end" -> EndArm(s)
      [] b = "run_arg" -> RunArgArm(s)
      [] b = "help" -> HelpArm(s)
      [] b = "version" -> VersionArm(s)
      [] b = "bin" -> BinArm(s)
      [] b = "bin_eq" -> BinEqArm(s)
      [] b = "target" -> TargetArm(s)
      [] b = "target_eq" -> TargetEqArm(s)
      [] b = "manifest_path" -> ManifestPathArm(s)
      [] b = "manifest_path_eq" -> ManifestPathEqArm(s)
      [] b = "release" -> ReleaseArm(s)
      [] b = "sep" -> SepArm(s)
      [] b = "other" -> OtherArm(s)
      [] b = "ret_build" -> BuildReturn(s)
      [] b = "ret_run" -> RunReturn(s)
      [] b = "ret_test" -> TestReturn(s)
      [] OTHER -> s

\* parse_args run to its end (a Command or a panic) from state s.
RECURSIVE RunToEnd(_)
RunToEnd(s) == IF s.pc \in {"done", "panic"} THEN s ELSE RunToEnd(Step(s))

\* parse_args applied to the argument vector a.
parse_args(a) == RunToEnd(Start(a))

---------------------------------------------------------------------------
(* The state machine *)

InitWith(argvs) ==
    /\ argv \in argvs
    /\ pos = 0
    /\ pc = "parse_args"
    /\ first = None
    /\ manifest_path = None
    /\ bin_name = None
    /\ target = None
    /\ release = None
    /\ cargo_args = <<>>
    /\ run_args = <<>>
    /\ run_args_started = FALSE
    /\ cmd = NoCommand
    /\ result = NoCommand
    /\ err = ""

Init == InitWith(Argvs(TailTokens, MaxTail))

InitEq == InitWith(Argvs(EqTokens, MaxEqTail))

Subcommand == Branch(Cur) = "subcommand" /\ Become(SubcommandArm(Cur))
TopHelp == Branch(Cur) = "Help" /\ Become(TopHelpArm(Cur))
TopVersion == Branch(Cur) = "Version" /\ Become(TopVersionArm(Cur))
NoSubcommand == Branch(Cur) = "NoSubcommand" /\ Become(NoSubcommandArm(Cur))
RunArg == Branch(Cur) = "run_arg" /\ Become(RunArgArm(Cur))
HelpArg == Branch(Cur) = "help" /\ Become(HelpArm(Cur))
VersionArg == Branch(Cur) = "version" /\ Become(VersionArm(Cur))
BinArg == Branch(Cur) = "bin" /\ Become(BinArm(Cur))
BinEqArg == Branch(Cur) = "bin_eq" /\ Become(BinEqArm(Cur))
TargetArg == Branch(Cur) = "target" /\ Become(TargetArm(Cur))
TargetEqArg == Branch(Cur) = "target_eq" /\ Become(TargetEqArm(Cur))
ManifestPathArg == Branch(Cur) = "manifest_path" /\ Become(ManifestPathArm(Cur))
ManifestPathEqArg ==
    Branch(Cur) = "manifest_path_eq" /\ Become(ManifestPathEqArm(Cur))
ReleaseArg == Branch(Cur) = "release" /\ Become(ReleaseArm(Cur))
SepArg == Branch(Cur) = "sep" /\ Become(SepArm(Cur))
OtherArg == Branch(Cur) = "other" /\ Become(OtherArm(Cur))
EndOfStream == Branch(Cur) = "end" /\ Become(EndArm(Cur))
ReturnBuild == Branch(Cur) = "ret_build" /\ Become(BuildReturn(Cur))
ReturnRun == Branch(Cur) = "ret_run" /\ Become(RunReturn(Cur))
ReturnTest == Branch(Cur) = "ret_test" /\ Become(TestReturn(Cur))

Next ==
    \/ Subcommand
    \/ TopHelp
    \/ TopVersion
    \/ NoSubcommand
    \/ RunArg
    \/ HelpArg
    \/ VersionArg
    \/ BinArg
    \/ BinEqArg
    \/ TargetArg
    \/ TargetEqArg
    \/ ManifestPathArg
    \/ ManifestPathEqArg
    \/ ReleaseArg
    \/ SepArg
    \/ OtherArg
    \/ EndOfStream
    \/ ReturnBuild
    \/ ReturnRun
    \/ ReturnTest

Spec == Init /\ [][Next]_vars

SpecEq == InitEq /\ [][Next]_vars

---------------------------------------------------------------------------
(* Args::set_target and Args::set_bin_name, called by the dispatcher on the
   Args of the Command that parse_args returned *)

\* The values the dispatcher passes to the setters.
SetValues == {T_x, T_p}

\* set_target that stores the value but forwards nothing.
set_target_NoPush(a, v) ==
    IF a.target # None THEN [ok |-> FALSE, args |-> a]
    ELSE [ok |-> TRUE, args |-> [a EXCEPT !.target = Some(v)]]

\* set_target without its assertion.
set_target_NoAssert(a, v) ==
    [ok |-> TRUE,
     args |-> [a EXCEPT !.target = Some(v),
                        !.cargo_args = a.cargo_args \o <<T_target, v>>]]

\* pub fn set_target(&mut self, target: String): the assertion comes first;
\* ok tells whether it held, args is the Args afterwards.
set_target(a, v) ==
    IF a.target # None THEN [ok |-> FALSE, args |-> a]
    ELSE [ok |-> TRUE,
          args |-> [a EXCEPT !.target = Some(v),
                             !.cargo_args = a.cargo_args \o <<T_target, v>>]]
\* set_bin_name that stores the value but forwards nothing.
set_bin_name_NoPush(a, v) ==
    IF a.bin_name # None THEN [ok |-> FALSE, args |-> a]
    ELSE [ok |-> TRUE, args |-> [a EXCEPT !.bin_name = Some(v)]]

\* pub fn set_bin_name(&mut self, bin_name: String)
set_bin_name(a, v) ==
    IF a.bin_name # None THEN [ok |-> FALSE, args |-> a]
    ELSE [ok |-> TRUE,
          args |-> [a EXCEPT !.bin_name = Some(v),
                             !.cargo_args = a.cargo_args \o <<T_bin, v>>]]

\* A setter call with outcome r on the Args of the returned Command: the
\* Args is updated, or the assertion fails (AlreadySet).
Called(r) ==
    /\ IF r.ok
       THEN /\ result' = [result EXCEPT !.args = r.args]
            /\ UNCHANGED <<pc, err>>
       ELSE /\ pc' = "panic"
            /\ err' = "AlreadySet"
            /\ UNCHANGED result
    /\ UNCHANGED <<argv, pos, first, manifest_path, bin_name, target, release,
                   cargo_args, run_args, run_args_started, cmd>>

SetTarget ==
    /\ pc = "done"
    /\ result.tag \in {"Build", "Run", "Test"}
    /\ \E v \in SetValues : Called(set_target(result.args, v))

SetBinName ==
    /\ pc = "done"
    /\ result.tag \in {"Build", "Run", "Test"}
    /\ \E v \in SetValues : Called(set_bin_name(result.args, v))

InitSet == InitWith(Argvs(TailTokens, MaxSetTail))

NextSet ==
    \/ Next
    \/ SetTarget
    \/ SetBinName

SpecSet == InitSet /\ [][NextSet]_vars

---------------------------------------------------------------------------
(* Vocabulary of the properties *)

Subcommands == {Some(T_build), Some(T_run), Some(T_test)}

\* The parse has ended: with a Command (done) or fatally (panic).
Terminated == pc \in {"done", "panic"}

\* The first token of the argument vector, and the tokens after it.
FirstOf(a) == IF a = <<>> THEN None ELSE Some(a[1])
TailOf(a) == IF a = <<>> THEN <<>> ELSE Tail(a)

\* A Command that carries an Args.
HasArgs(c) == c.tag \in {"Build", "Run", "Test"}

\* The token about to be scanned in option-scanning mode.
ScanningOption ==
    pc = "loop" /\ ~run_args_started /\ pos < Len(argv)

---------------------------------------------------------------------------
\* C1: parse_args classifies on the first token only: Help for `--help` and
\* `-h`, Version for `--version`, NoSubcommand for an absent first token or
\* one that is none of build, run, test, --help, -h, --version; whatever
\* the remaining tokens are, the result is that one and nothing is fatal.
C1_FirstTokenOnly ==
    pc # "parse_args" =>
        LET f == FirstOf(argv) IN
        /\ f \in {Some(T_help), Some(T_h)} =>
              pc = "done" /\ result = Plain("Help") /\ err = ""
        /\ f = Some(T_version) =>
              pc = "done" /\ result = Plain("Version") /\ err = ""
        /\ f \notin Subcommands \cup {Some(T_help), Some(T_h), Some(T_version)} =>
              pc = "done" /\ result = Plain("NoSubcommand") /\ err = ""

\* `-h --bin=x --bin=x`: Help, though the tail repeats an option.
C1_Witness ==
    /\ pc = "done"
    /\ result = Plain("Help")
    /\ argv = <<T_h, T_bin_eq \o T_x, T_bin_eq \o T_x>>

\* C2: for every tail t, the parse of [run] ++ t is the parse of
\* [build] ++ t with Build(args) relabelled Run(args) and BuildHelp
\* relabelled RunHelp, the Args identical, Version unchanged, and fatal
\* exactly when the build parse is fatal; the same for [test] ++ t with
\* Test/TestHelp whenever the build parse yields no bin_name.
C2_RunTestRelabelBuild ==
    (Terminated /\ first \in {Some(T_run), Some(T_test)}) =>
        LET b == parse_args(<<T_build>> \o TailOf(argv))
            isRun == first = Some(T_run)
        IN  IF b.pc = "panic" THEN pc = "panic" /\ err = b.err
            ELSE IF b.result.tag = "Build" THEN
                \/ ~isRun /\ b.result.args.bin_name # None
                \/ /\ pc = "done"
                   /\ result = WithArgs(IF isRun THEN "Run" ELSE "Test",
                                        b.result.args)
            ELSE IF b.result.tag = "BuildHelp" THEN
                /\ pc = "done"
                /\ result = Plain(IF isRun THEN "RunHelp" ELSE "TestHelp")
            ELSE pc = "done" /\ result = b.result

\* `run --bin x --help`: RunHelp.
C2_Witness ==
    /\ pc = "done"
    /\ result = Plain("RunHelp")
    /\ argv = <<T_run, T_bin, T_x, T_help>>

\* C3: once the run-args flag is set it is never cleared, and every later
\* token is appended verbatim and in order to run_args while cargo_args,
\* bin_name, target, manifest_path and release stay unchanged and the scan
\* neither short-circuits into help/version nor fails.
C3_SeparatorHardBoundary ==
    [][run_args_started =>
          /\ run_args_started'
          /\ (pc = "loop" /\ pos < Len(argv)) =>
                /\ run_args' = Append(run_args, argv[pos + 1])
                /\ pos' = pos + 1
                /\ pc' = "loop"
                /\ cmd' = NoCommand
                /\ err' = ""
                /\ UNCHANGED <<cargo_args, bin_name, target, manifest_path,
                               release>>]_vars

\* `build -- -- --help`: the second `--` and `--help` are run arguments.
C3_Witness ==
    /\ run_args_started
    /\ run_args = <<T_sep, T_help>>
    /\ cargo_args = <<>>

---------------------------------------------------------------------------
(* The token stream read lexically, for the properties about whole streams *)

\* The option kind a token spells: "bin" for `--bin` and `--bin=..`, etc.
TokKind(tok) ==
    IF tok = T_bin \/ starts_with(tok, T_bin_eq) THEN "bin"
    ELSE IF tok = T_target \/ starts_with(tok, T_target_eq) THEN "target"
    ELSE IF tok = T_manifest_path \/ starts_with(tok, T_manifest_path_eq)
    THEN "manifest_path"
    ELSE IF tok = T_release THEN "release"
    ELSE IF tok \in {T_help, T_h, T_version} THEN "stop"
    ELSE IF tok = T_sep THEN "sep"
    ELSE "other"

\* A token that is no recognized wrapper option.
Unrecognized(tok) == TokKind(tok) = "other"

\* The positions of stream t that hold a token of kind k.
Occurrences(t, k) == {i \in DOMAIN t : TokKind(t[i]) = k}

\* The positions of t, from i on, that do not hold the value of a preceding
\* `--bin`/`--target`/`--manifest-path`; with stopping, also not those after
\* a `--`, `--help`, `-h` or `--version` found in such a position.
RECURSIVE Walk(_, _, _)
Walk(t, i, stopping) ==
    IF i > Len(t) THEN {}
    ELSE IF stopping /\ TokKind(t[i]) \in {"stop", "sep"} THEN {i}
    ELSE IF t[i] \in {T_bin, T_target, T_manifest_path}
    THEN {i} \cup Walk(t, i + 2, stopping)
    ELSE {i} \cup Walk(t, i + 1, stopping)

\* The positions of t that hold no option's value.
FlagPositions(t) == Walk(t, 1, FALSE)

\* The positions of t in option-scanning position.
OptPositions(t) == Walk(t, 1, TRUE)

\* The positions of t where a token of kind k stands as an option.
Supplied(t, k) == Occurrences(t, k) \cap FlagPositions(t)

\* The option-scanning positions of t that hold a token of kind k.
Scanned(t, k) == Occurrences(t, k) \cap OptPositions(t)

\* The position of the `--` that starts the run arguments, Len(t) + 1 if none.
SepPos(t) ==
    IF Scanned(t, "sep") = {} THEN Len(t) + 1
    ELSE CHOOSE i \in Scanned(t, "sep") : TRUE

---------------------------------------------------------------------------
\* C4 (as stated): for all token streams after the subcommand word that do
\* not contain --bin, --target or --manifest-path more than once, parsing
\* succeeds and every token that is no recognized wrapper option appears in
\* cargo_args in its original relative order and form.
C4_Original ==
    LET t == TailOf(argv) IN
    (/\ Terminated
     /\ first \in Subcommands
     /\ \A k \in {"bin", "target", "manifest_path"} :
            Cardinality(Occurrences(t, k)) <= 1) =>
        /\ pc = "done"
        /\ HasArgs(result) =>
              SelectSeq(result.args.cargo_args, Unrecognized)
                 = SelectSeq(t, Unrecognized)

\* C4 (amended): for all token streams after build, run or test that contain
\* --bin, --target, --manifest-path and --release at most once each, and no
\* --bin after test, the parse can fail only with InvalidPath (and not at
\* all without a --manifest-path); and when it returns Build/Run/Test(args),
\* every token before the `--` that starts the run arguments, if it is no
\* recognized wrapper option, appears in cargo_args in its original relative
\* order and form.
C4_UnrecognizedForwarded ==
    LET t == TailOf(argv) IN
    (/\ Terminated
     /\ first \in Subcommands
     /\ \A k \in {"bin", "target", "manifest_path", "release"} :
            Cardinality(Occurrences(t, k)) <= 1
     /\ ~(first = Some(T_test) /\ Occurrences(t, "bin") # {})) =>
        /\ pc = "panic" => err = "InvalidPath" /\ Occurrences(t, "manifest_path") # {}
        /\ (pc = "done" /\ HasArgs(result)) =>
              SelectSeq(result.args.cargo_args, Unrecognized)
                 = SelectSeq(SubSeq(t, 1, SepPos(t) - 1), Unrecognized)

\* `build p --bin=x x`: both plain words are forwarded, in order.
C4_Witness ==
    /\ pc = "done"
    /\ argv = <<T_build, T_p, T_bin_eq \o T_x, T_x>>
    /\ result.args.cargo_args = <<T_p, T_bin_eq \o T_x, T_x>>

\* C5 (as stated): any argument vector in which the same option kind among
\* bin_name, target, manifest_path occurs a second time fails fatally with
\* DuplicateOption and yields no Command; a single occurrence of each of the
\* three kinds never fails for duplication. Read in the claim's favour: the
\* vector starts with a subcommand, a token that is an option's value is no
\* occurrence, and a manifest path that fails to canonicalize may be
\* reported instead.
C5_Original ==
    LET t == TailOf(argv) IN
    (Terminated /\ first \in Subcommands) =>
        /\ (\E k \in {"bin", "target", "manifest_path"} :
               Cardinality(Supplied(t, k)) >= 2) =>
              \/ pc = "panic" /\ err = "DuplicateOption"
              \/ pc = "panic" /\ err = "InvalidPath"
        /\ (\A k \in {"bin", "target", "manifest_path"} :
               Cardinality(Supplied(t, k)) = 1) =>
              err # "DuplicateOption"

\* C5 (amended): for an argument vector that starts with build, run or test,
\* if the same option kind among bin_name, target, manifest_path is scanned
\* a second time in option-scanning position, the parse fails fatally and
\* yields no Command: with DuplicateOption, or with InvalidPath when the
\* stream holds a --manifest-path (its value is canonicalized before the
\* duplicate check). With each of the three kinds and --release scanned at
\* most once, the parse never fails with DuplicateOption.
C5_DuplicateIsFatal ==
    LET t == TailOf(argv) IN
    (Terminated /\ first \in Subcommands) =>
        /\ (\E k \in {"bin", "target", "manifest_path"} :
               Cardinality(Scanned(t, k)) >= 2) =>
              /\ pc = "panic"
              /\ result = NoCommand
              /\ err \in {"DuplicateOption", "InvalidPath"}
              /\ Scanned(t, "manifest_path") = {} => err = "DuplicateOption"
        /\ (\A k \in {"bin", "target", "manifest_path", "release"} :
               Cardinality(Scanned(t, k)) <= 1) =>
              err # "DuplicateOption"

\* `run --target x --target=x`: one of each form, fatal at the second.
C5_Witness ==
    /\ pc = "panic"
    /\ err = "DuplicateOption"
    /\ argv = <<T_run, T_target, T_x, T_target_eq \o T_x>>

ScanRunsToEnd(t) ==
    /\ Scanned(t, "stop") = {}
    /\ Scanned(t, "manifest_path") = {}
    /\ \A k \in {"bin", "target", "release"} : Cardinality(Scanned(t, k)) <= 1

\* The stream holds a pair `--bin foo` (flag, then a value) at one of the
\* positions.
HasBinPair(t, positions) == \E i \in positions : t[i] = T_bin /\ i < Len(t)

\* C7 (as stated): every argument vector that starts with test and contains
\* `--bin foo` fails fatally with IllegalCombination, whatever precedes or
\* follows the pair; no Test, TestHelp or Version is produced.
C7_Original ==
    (Terminated /\ first = Some(T_test)
        /\ HasBinPair(TailOf(argv), FlagPositions(TailOf(argv)))) =>
        pc = "panic" /\ err = "IllegalCombination"

\* C7 (amended): an argument vector that starts with test and in which
\* `--bin foo` is scanned in option-scanning position never yields Test: it
\* fails with IllegalCombination when the scan reaches the end of the
\* stream, and otherwise ends as the scan was cut short: TestHelp or Version
\* at a help/version token, DuplicateOption or InvalidPath at a fatal one.
C7_TestWithBinIsFatal ==
    LET t == TailOf(argv) IN
    (Terminated /\ first = Some(T_test) /\ HasBinPair(t, OptPositions(t))) =>
        /\ ~(pc = "done" /\ result.tag = "Test")
        /\ ScanRunsToEnd(t) => pc = "panic" /\ err = "IllegalCombination"
        /\ pc = "done" =>
              result \in {Plain("TestHelp"), Plain("Version")}
                 /\ Scanned(t, "stop") # {}
        /\ (pc = "panic" /\ err # "IllegalCombination") =>
              err \in {"DuplicateOption", "InvalidPath"} /\ ~ScanRunsToEnd(t)

\* `test x --bin p`: the pair after another argument.
C7_Witness ==
    /\ pc = "panic"
    /\ err = "IllegalCombination"
    /\ argv = <<T_test, T_x, T_bin, T_p>>

\* C8: when the token scanned in option-scanning mode is `--help` or `-h`
\* parse_build_args returns BuildHelp at once, when it is `--version` it
\* returns Version at once; what was parsed so far is discarded, no later
\* token is read, and the parse then ends with a help/version Command,
\* never fatally.
C8_HelpVersionShortCircuit ==
    [][/\ (ScanningOption /\ argv[pos + 1] \in {T_help, T_h}) =>
             pc' = "returned" /\ cmd' = Plain("BuildHelp") /\ pos' = pos + 1
       /\ (ScanningOption /\ argv[pos + 1] = T_version) =>
             pc' = "returned" /\ cmd' = Plain("Version") /\ pos' = pos + 1
       /\ (pc = "returned" /\ cmd.tag \in {"BuildHelp", "Version"}) =>
             /\ pc' = "done"
             /\ pos' = pos
             /\ err' = ""
             /\ result' \in {Plain("BuildHelp"), Plain("RunHelp"),
                             Plain("TestHelp"), Plain("Version")}]_vars

\* `test --bin=x -h --bin=x`: TestHelp; the option parsed before is
\* discarded and the duplicate after it is never read.
C8_Witness ==
    /\ pc = "done"
    /\ result = Plain("TestHelp")
    /\ argv = <<T_test, T_bin_eq \o T_x, T_h, T_bin_eq \o T_x>>
    /\ pos = 3

---------------------------------------------------------------------------
(* The --opt=value forms *)

\* The value of an --opt=value token: all that follows the prefix `--opt=`.
ValueAfter(tok, prefix) == SubSeq(tok, Len(prefix) + 1, Len(tok))

\* The first token after the subcommand has just been scanned as an option in
\* --opt=value form.
ScannedEqForm(prefix) ==
    /\ first \in Subcommands
    /\ pc \in {"loop", "panic"}
    /\ pos = 2
    /\ starts_with(argv[2], prefix)

\* C9: for every value v, the token `--bin=v` and the pair `--bin v` give
\* the same bin_name, exactly v (all that follows the first `=`), and
\* differ only in the shape of cargo_args (one token against two); the same
\* for `--target=v` and `--target v`.
C9_EqFormSameValue ==
    /\ ScannedEqForm(T_bin_eq) =>
          LET v == ValueAfter(argv[2], T_bin_eq)
              pair == parse_args(<<argv[1], T_bin, v>>)
          IN  /\ bin_name = Some(v)
              /\ pair.bin_name = bin_name
              /\ cargo_args = <<argv[2]>>
              /\ pair.cargo_args = <<T_bin, v>>
    /\ ScannedEqForm(T_target_eq) =>
          LET v == ValueAfter(argv[2], T_target_eq)
              pair == parse_args(<<argv[1], T_target, v>>)
          IN  /\ target = Some(v)
              /\ pair.target = target
              /\ cargo_args = <<argv[2]>>
              /\ pair.cargo_args = <<T_target, v>>

\* C10: for `--manifest-path p` and `--manifest-path=p`, if p canonicalizes
\* manifest_path holds the canonical absolute path and cargo_args keeps the
\* original text; if it does not, the parse aborts with InvalidPath and no
\* Command is returned.
C10_ManifestPathCanonical ==
    /\ ScannedEqForm(T_manifest_path_eq) =>
          LET p == ValueAfter(argv[2], T_manifest_path_eq) IN
          IF canonicalize(p) # None
          THEN /\ pc = "loop"
               /\ manifest_path = canonicalize(p)
               /\ cargo_args = <<argv[2]>>
          ELSE /\ pc = "panic"
               /\ err = "InvalidPath"
               /\ result = NoCommand
    /\ (/\ first \in Subcommands
        /\ pc \in {"loop", "panic"}
        /\ pos = 3
        /\ argv[2] = T_manifest_path) =>
          LET p == argv[3] IN
          IF canonicalize(p) # None
          THEN /\ pc = "loop"
               /\ manifest_path = canonicalize(p)
               /\ cargo_args = <<T_manifest_path, p>>
          ELSE /\ pc = "panic"
               /\ err = "InvalidPath"
               /\ result = NoCommand

---------------------------------------------------------------------------
(* The setters *)

\* The Args of the returned Command, while the program runs on.
Returned == pc = "done" /\ HasArgs(result)

\* C11: set_target(v) on an Args whose target is absent sets target to v
\* and appends exactly the two tokens `--target`, v to cargo_args, leaving
\* the rest of cargo_args, run_args, bin_name, manifest_path and release as
\* they were; set_bin_name(v) likewise for bin_name with `--bin`, v.
C11_SetterFrame ==
    Returned =>
        \A v \in SetValues :
            LET a == result.args
                rt == set_target(a, v)
                rb == set_bin_name(a, v)
            IN  /\ a.target = None =>
                      /\ rt.ok
                      /\ rt.args = Args(a.cargo_args \o <<T_target, v>>,
                                        a.run_args, a.bin_name, Some(v),
                                        a.manifest_path, a.release)
                /\ a.bin_name = None =>
                      /\ rb.ok
                      /\ rb.args = Args(a.cargo_args \o <<T_bin, v>>,
                                        a.run_args, Some(v), a.target,
                                        a.manifest_path, a.release)

\* `build --release --`, then set_bin_name(p) and set_target(x).
C11_Witness ==
    /\ Returned
    /\ argv = <<T_build, T_release, T_sep>>
    /\ result.args = Args(<<T_release, T_bin, T_p, T_target, T_x>>, <<>>,
                          Some(T_p), Some(T_x), None, TRUE)

\* C12: a set-once field is populated at most once over any sequence of
\* operations: set_target (set_bin_name) on an Args whose target (bin_name)
\* is present, from the parse or from an earlier setter call, fails with
\* AlreadySet and leaves the field and cargo_args unchanged.
C12_SetOnce ==
    [][Returned =>
          LET a == result.args IN
          /\ \A v \in SetValues :
                /\ a.target # None =>
                      set_target(a, v) = [ok |-> FALSE, args |-> a]
                /\ a.bin_name # None =>
                      set_bin_name(a, v) = [ok |-> FALSE, args |-> a]
          /\ pc' = "panic" =>
                /\ err' = "AlreadySet"
                /\ result' = result
                /\ a.target # None \/ a.bin_name # None
          /\ pc' = "done" =>
                /\ a.target # None => result'.args.target = a.target
                /\ a.bin_name # None => result'.args.bin_name = a.bin_name
                /\ a.target # None /\ a.bin_name # None => result' = result]_vars

\* `run x`, set_target(p), then a second set_target fails.
C12_Witness ==
    /\ pc = "panic"
    /\ err = "AlreadySet"
    /\ argv = <<T_run, T_x>>
    /\ result.args.target = Some(T_p)
    /\ result.args.bin_name = None
    /\ result.args.cargo_args = <<T_x, T_target, T_p>>

---------------------------------------------------------------------------
\* C13: for every parse that returns Build/Run/Test(args), no token is lost,
\* duplicated or reordered: cargo_args followed by run_args is the token
\* stream with exactly one token removed, the first `--` not consumed as the
\* value of --bin/--target/--manifest-path (nothing removed when there is
\* none); a `--` consumed as a value is forwarded in cargo_args and does not
\* start the run arguments.
C13_NoTokenLost ==
    (pc = "done" /\ HasArgs(result)) =>
        LET t == TailOf(argv)
            k == SepPos(t)
        IN  /\ result.args.cargo_args = SubSeq(t, 1, k - 1)
            /\ result.args.run_args = SubSeq(t, k + 1, Len(t))
            /\ k <= Len(t) => t[k] = T_sep
            /\ k > Len(t) => result.args.cargo_args \o result.args.run_args = t

\* `build --bin -- --`: the first `--` is the value of --bin, the second
\* starts the run arguments and is dropped.
C13_Witness ==
    /\ pc = "done"
    /\ argv = <<T_build, T_bin, T_sep, T_sep>>
    /\ result.args.cargo_args = <<T_bin, T_sep>>
    /\ result.args.run_args = <<>>
    /\ result.args.bin_name = Some(T_sep)

\* The last token of the stream is about to be scanned as an option.
ScanningLast == ScanningOption /\ pos + 1 = Len(argv)

\* The scan goes on after the token, which was appended to cargo_args.
Forwarded ==
    /\ pc' = "loop"
    /\ err' = ""
    /\ cargo_args' = Append(cargo_args, argv[pos + 1])

\* C14: when --bin, --target or --manifest-path is the last token of the
\* stream and its slot was not set earlier, the parse does not fail at it:
\* the slot stays absent, nothing is canonicalized and the lone flag is
\* appended to cargo_args; when the slot was set earlier, the trailing flag
\* is a fatal DuplicateOption.
C14_TrailingFlag ==
    [][/\ (ScanningLast /\ argv[pos + 1] = T_bin) =>
             IF bin_name = None THEN Forwarded /\ bin_name' = None
             ELSE pc' = "panic" /\ err' = "DuplicateOption"
       /\ (ScanningLast /\ argv[pos + 1] = T_target) =>
             IF target = None THEN Forwarded /\ target' = None
             ELSE pc' = "panic" /\ err' = "DuplicateOption"
       /\ (ScanningLast /\ argv[pos + 1] = T_manifest_path) =>
             IF manifest_path = None THEN Forwarded /\ manifest_path' = None
             ELSE pc' = "panic" /\ err' = "DuplicateOption"]_vars

\* `build x --bin`: Build, bin_name absent, the lone flag forwarded.
C14_Witness ==
    /\ pc = "done"
    /\ argv = <<T_build, T_x, T_bin>>
    /\ result.args.bin_name = None
    /\ result.args.cargo_args = <<T_x, T_bin>>

---------------------------------------------------------------------------
\* C16: in every Args returned at the normal end of the stream, release is
\* true iff a `--release` was scanned in option-scanning mode; a `--release`
\* that occurs only after the `--` leaves release false and is in run_args,
\* not in cargo_args.
C16_ReleaseIffScanned ==
    (pc = "done" /\ HasArgs(result)) =>
        LET t == TailOf(argv)
            a == result.args
        IN  /\ a.release <=> Scanned(t, "release") # {}
            /\ (/\ Occurrences(t, "release") # {}
                /\ \A i \in Occurrences(t, "release") : i > SepPos(t)) =>
                  /\ ~a.release
                  /\ \E i \in DOMAIN a.run_args : a.run_args[i] = T_release
                  /\ \A i \in DOMAIN a.cargo_args : a.cargo_args[i] # T_release

\* `run x -- --release`: release false, the flag among the run arguments.
C16_Witness ==
    /\ pc = "done"
    /\ argv = <<T_run, T_x, T_sep, T_release>>
    /\ result.args.release = FALSE
    /\ result.args.run_args = <<T_release>>

---------------------------------------------------------------------------
(* The fields of Args against the forwarded list *)

\* The positions of the forwarded list ca that hold a token of kind k and no
\* option's value.
Flags(ca, k) == Occurrences(ca, k) \cap FlagPositions(ca)

\* ca forwards the option `flag` with value v: the flag followed by v, or a
\* token with the prefix `flag=`.
Forwards(ca, flag, v) ==
    \E i \in DOMAIN ca :
        \/ ca[i] = flag /\ i < Len(ca) /\ ca[i + 1] = v
        \/ starts_with(ca[i], flag \o <<"=">>)

\* In stream t, before the `--` that starts the run arguments, every --bin
\* and --target token stands as an option and has its value.
OptionsWellFormed(t) ==
    \A i \in 1..(SepPos(t) - 1) :
        TokKind(t[i]) \in {"bin", "target"} =>
            /\ i \in OptPositions(t)
            /\ t[i] \in {T_bin, T_target} => i < Len(t)

\* C15 (as stated): after a parse and any sequence of setter calls, bin_name
\* (target) is present iff cargo_args contains a `--bin` (`--target`) flag
\* or a `--bin=` (`--target=`) prefixed token, and cargo_args never holds
\* more than one such flag of a kind. Read in the claim's favour: a token
\* that is an option's value is no flag.
C15_Original ==
    HasArgs(result) =>
        LET a == result.args IN
        /\ a.bin_name # None <=> Flags(a.cargo_args, "bin") # {}
        /\ a.target # None <=> Flags(a.cargo_args, "target") # {}
        /\ Cardinality(Flags(a.cargo_args, "bin")) <= 1
        /\ Cardinality(Flags(a.cargo_args, "target")) <= 1

\* C15 (amended): after a parse and any sequence of setter calls, if
\* bin_name (target) is present, cargo_args contains `--bin` (`--target`)
\* followed by the value, or a `--bin=` (`--target=`) prefixed token. The
\* converse, and at most one such token per kind in cargo_args, hold when
\* every --bin and --target token before the `--` stands as an option and
\* has a value (no lone trailing flag, none forwarded as another option's
\* value) and the setters are given plain values.
C15_FieldsForwarded ==
    HasArgs(result) =>
        LET a == result.args
            ca == a.cargo_args
        IN  /\ a.bin_name # None => Forwards(ca, T_bin, a.bin_name[1])
            /\ a.target # None => Forwards(ca, T_target, a.target[1])
            /\ OptionsWellFormed(TailOf(argv)) =>
                  /\ Occurrences(ca, "bin") # {} => a.bin_name # None
                  /\ Occurrences(ca, "target") # {} => a.target # None
                  /\ Cardinality(Occurrences(ca, "bin")) <= 1
                  /\ Cardinality(Occurrences(ca, "target")) <= 1

\* `build --target=x`, then set_bin_name(p).
C15_Witness ==
    /\ Returned
    /\ argv = <<T_build, T_target_eq \o T_x>>
    /\ result.args.cargo_args = <<T_target_eq \o T_x, T_bin, T_p>>
    /\ result.args.bin_name = Some(T_p)
    /\ result.args.target = Some(T_x)

---------------------------------------------------------------------------
\* C17 (as stated): every Test(args) returned by parse_args has bin_name
\* absent, and its cargo_args holds no `--bin` flag and no `--bin=` prefixed
\* token. Read in the claim's favour: a token that is an option's value is
\* no flag.
C17_Original ==
    (pc = "done" /\ result.tag = "Test") =>
        /\ result.args.bin_name = None
        /\ Flags(result.args.cargo_args, "bin") = {}

\* C17 (amended): every Test(args) returned by parse_args has bin_name
\* absent, and its cargo_args holds no `--bin` flag with a value and no
\* `--bin=` prefixed token as an option; a lone `--bin` at the very end of
\* the stream, which sets no bin_name, is still forwarded.
C17_TestHasNoBin ==
    (pc = "done" /\ result.tag = "Test") =>
        LET ca == result.args.cargo_args IN
        /\ result.args.bin_name = None
        /\ \A i \in Flags(ca, "bin") :
              /\ ca[i] = T_bin
              /\ i = Len(ca)
              /\ ca = TailOf(argv)

\* `test x --bin`: Test, with the lone flag forwarded.
C17_Witness ==
    /\ pc = "done"
    /\ result.tag = "Test"
    /\ argv = <<T_test, T_x, T_bin>>
    /\ result.args.cargo_args = <<T_x, T_bin>>

====
